---- MODULE Spec2Model ----
(***************************************************************************)
(* A model of src/maze.py: Maze.generate_board (randomized iterative DFS), *)
(* Maze.__init__ and Maze.get_path.  One call Maze(rows, cols) is followed *)
(* from the head of the generation loop to the assignment of self.path.    *)
(* Maze.get_dir, MazeUI.__init__ and App.regenerate_maze have entry points *)
(* of their own (GetDirSpec, ClampSpec, AppSpec).                          *)
(*                                                                         *)
(* Python positions are 0-based (row, column) tuples; here a position is   *)
(* the tuple <<row, column>>, so Python's cell[0] is cell[1] below and     *)
(* Python's cell[1] is cell[2].                                            *)
(***************************************************************************)
EXTENDS Integers, Sequences, FiniteSets, TLC

\* ------------------------------------------------------------------ bounds
\* Largest rows / cols argument of Maze(rows, cols) that is explored.
MaxRows == 5
MaxCols == 7

\* --------------------------------------------------------------- constants
WALL == 0
SPACE == 1
START == 2
STOP == 3

START_CELL == <<0, 0>>

NO_DIR == 0
LEFT == 1
RIGHT == 2
UP == 3
DOWN == 4

\* Python's None where a position is expected (back[r][c], get_path's cell,
\* the local end before its first assignment).
None == <<>>

VARIABLES
    rows,        \* argument of Maze(rows, cols)
    cols,        \* argument of Maze(rows, cols)
    pc,          \* position in the call: "generate_board", "Maze_init",
                 \* "get_path", "done", or "IndexError" (the call raised)
    stack,       \* generate_board: the DFS stack, top last
    visited,     \* generate_board: set of positions
    board,       \* board[<<r, c>>], the 2D list of ints
    back,        \* back[<<r, c>>], the 2D list of backpointers
    max_length,  \* generate_board: largest stack length recorded
    end,         \* generate_board: the ending position
    cell,        \* get_path: the loop variable
    path,        \* get_path: the list being built, then self.path
    trace,       \* history: one record per iteration of the generation loop
    gd_start,    \* get_dir: argument start
    gd_end,      \* get_dir: argument end
    gd_ret,      \* get_dir: <<>> before the call returns, then <<value>>
    ui_pc,       \* UI layer: "MazeUI_init" (constructor called), "ready",
                 \* "IndexError" (the constructor raised), "idle" (no UI)
    spin_rows,   \* App.rows: text in the rows spinbox, a sequence of characters
    spin_cols,   \* App.cols: text in the columns spinbox
    r_str,       \* regenerate_maze: the text last read from App.rows
    c_str,       \* regenerate_maze: the text last read from App.cols
    arg_rows,    \* MazeUI.__init__: argument rows
    arg_cols,    \* MazeUI.__init__: argument cols
    maze_ui      \* the MazeUI object: rows, cols, size, and the arguments
                 \* its Maze was constructed with

maze_vars == <<rows, cols, pc, stack, visited, board, back, max_length, end,
               cell, path, trace>>

dir_vars == <<gd_start, gd_end, gd_ret>>

ui_vars == <<ui_pc, spin_rows, spin_cols, r_str, c_str, arg_rows, arg_cols,
             maze_ui>>

vars == <<maze_vars, dir_vars, ui_vars>>

\* ------------------------------------------------------------------ helpers
\* The positions of a rows_ x cols_ 2D list.
Cells(rows_, cols_) == (0 .. rows_ - 1) \X (0 .. cols_ - 1)

\* Mutant of IndexOK: an off-by-one upper limit.
IndexOK_OffByOne(i, n) == (0 - n) <= i /\ i <= n

\* A Python list of length n accepts index i (negative indices count from
\* the end); anything else raises IndexError.
IndexOK(i, n) == (0 - n) <= i /\ i < n

\* Mutant of Candidates: the downward neighbour is missing.
Candidates_NoDown(r, c) == << <<r - 2, c>>, <<r, c + 2>>, <<r, c - 2>> >>

\* children = [(r+2, c), (r-2, c), (r, c+2), (r, c-2)]
Candidates(r, c) == << <<r + 2, c>>, <<r - 2, c>>, <<r, c + 2>>, <<r, c - 2>> >>

\* The filter of lines 71-74: in range and not in visited.
InRange(p, rows_, cols_) ==
    p[1] >= 0 /\ p[1] < rows_ /\ p[2] >= 0 /\ p[2] < cols_

\* Mutant of Children: the filter forgets the visited set.
Children_IgnoreVisited(r, c, visited_, rows_, cols_) ==
    SelectSeq(Candidates(r, c), LAMBDA p : InRange(p, rows_, cols_))

Children(r, c, visited_, rows_, cols_) ==
    SelectSeq(Candidates(r, c),
              LAMBDA p : InRange(p, rows_, cols_) /\ p \notin visited_)

\* Mutant of WallBetween: w_c = (r + c_c)/2 instead of (c + c_c)/2.
WallBetween_RowInColumn(a, b) == <<(a[1] + b[1]) \div 2, (a[1] + b[2]) \div 2>>

\* Mutant of WallBetween: w_r = r instead of (r + c_r)/2.
WallBetween_RowOfCell(a, b) == <<a[1], (a[2] + b[2]) \div 2>>

\* The wall between two cells: ((r + c_r)/2, (c + c_c)/2), integer division.
WallBetween(a, b) == <<(a[1] + b[1]) \div 2, (a[2] + b[2]) \div 2>>

\* Mutant of DepthExceeds: != instead of >.
DepthExceeds_NotEqual(len, max) == len # max

\* Mutant of DepthExceeds: >= instead of >.
DepthExceeds_OrEqual(len, max) == len >= max

\* if len(stack) > max_length
DepthExceeds(len, max) == len > max

\* Mutant of SetBack: the two positions swapped.
SetBack_Swapped(back_, child, top) == [back_ EXCEPT ![top] = child]

\* back[child[0]][child[1]] = (r, c)
SetBack(back_, child, top) == [back_ EXCEPT ![child] = top]

\* ---------------------------------------------------------------- MazeUI
MAX_WIDTH == 600
MAX_HEIGHT == 600
MIN_SIZE == 3

\* (MAX_HEIGHT/MIN_SIZE + 1)/2 and (MAX_WIDTH/MIN_SIZE + 1)/2, integer division.
MAX_ROWS == ((MAX_HEIGHT \div MIN_SIZE) + 1) \div 2
MAX_COLS == ((MAX_WIDTH \div MIN_SIZE) + 1) \div 2

MIN_ROWS == 2
MIN_COLS == 1

DEFAULT_ROWS == 20
DEFAULT_COLS == 20

\* Python's min and max of a pair.
Min2(a, b) == IF a <= b THEN a ELSE b
Max2(a, b) == IF a >= b THEN a ELSE b

\* Mutant of Clamp: min and max exchanged.
Clamp_MinMaxSwapped(n, lo, hi) == Min2(Max2(n, hi), lo)

\* max((min((n, hi)), lo))
Clamp(n, lo, hi) == Max2(Min2(n, hi), lo)

\* Maze(rows_, cols_) raises IndexError in the first iteration of
\* generate_board when the board has no cell START_CELL.
MazeRaises(rows_, cols_) ==
    ~(IndexOK(START_CELL[1], rows_) /\ IndexOK(START_CELL[2], cols_))

\* The MazeUI object MazeUI(master, rows_, cols_) builds: self.rows, self.cols,
\* the arguments of self.maze = Maze(rows_actual, cols_actual), and self.size.
NewMazeUI(rows_, cols_) ==
    LET r == Clamp(rows_, MIN_ROWS, MAX_ROWS)
        c == Clamp(cols_, MIN_COLS, MAX_COLS)
        rows_actual == 2 * r - 1
        cols_actual == 2 * c - 1
    IN  [rows |-> r, cols |-> c,
         maze_rows |-> rows_actual, maze_cols |-> cols_actual,
         size |-> IF MazeRaises(rows_actual, cols_actual) THEN 0
                  ELSE Min2(MAX_HEIGHT \div rows_actual,
                            MAX_WIDTH \div cols_actual)]

\* No MazeUI object (self.maze_ui = None, or the constructor has not run).
NoMazeUI == [rows |-> 0, cols |-> 0, maze_rows |-> 0, maze_cols |-> 0,
             size |-> 0]

\* ------------------------------------------------------- spinbox text, int()
\* A text is a sequence of one-character strings.
Digits == <<"0", "1", "2", "3", "4", "5", "6", "7", "8", "9">>

IsDigit(ch) == \E i \in 1 .. Len(Digits) : Digits[i] = ch

DigitValue(ch) == (CHOOSE i \in 1 .. Len(Digits) : Digits[i] = ch) - 1

\* int() ignores surrounding whitespace.
RECURSIVE StripLeft(_)
StripLeft(t) == IF t # <<>> /\ t[1] = " " THEN StripLeft(Tail(t)) ELSE t

RECURSIVE StripRight(_)
StripRight(t) ==
    IF t # <<>> /\ t[Len(t)] = " "
    THEN StripRight(SubSeq(t, 1, Len(t) - 1))
    ELSE t

\* The value of a sequence of decimal digits.
RECURSIVE DecimalValue(_)
DecimalValue(s) ==
    IF s = <<>> THEN 0
    ELSE 10 * DecimalValue(SubSeq(s, 1, Len(s) - 1)) + DigitValue(s[Len(s)])

\* int(text): ok is FALSE when int raises ValueError.
int_(text) ==
    LET s == StripRight(StripLeft(text))
        signed == s # <<>> /\ s[1] \in {"+", "-"}
        body == IF signed THEN Tail(s) ELSE s
        ok == body # <<>> /\ \A i \in 1 .. Len(body) : IsDigit(body[i])
    IN  [ok |-> ok,
         value |-> IF ~ok THEN 0
                   ELSE IF signed /\ s[1] = "-" THEN 0 - DecimalValue(body)
                   ELSE DecimalValue(body)]

\* The decimal digits of n >= 0.
RECURSIVE DecimalText(_)
DecimalText(n) ==
    IF n < 10 THEN <<Digits[n + 1]>>
    ELSE DecimalText(n \div 10) \o <<Digits[(n % 10) + 1]>>

\* The text Tk inserts for an int value: str(n).
str_(n) == IF n < 0 THEN <<"-">> \o DecimalText(0 - n) ELSE DecimalText(n)

\* Mutant of IntOrDefault: the except branch yields 0.
IntOrDefault_Zero(text, default) ==
    IF int_(text).ok THEN int_(text).value ELSE 0

\* try: rows = int(r_str)  except: rows = self.DEFAULT_ROWS
IntOrDefault(text, default) ==
    IF int_(text).ok THEN int_(text).value ELSE default

\* ------------------------------------------------ parts of the state at rest
\* No Maze is under construction.
MazeIdle ==
    /\ rows = 0
    /\ cols = 0
    /\ pc = "idle"
    /\ stack = <<>>
    /\ visited = {}
    /\ board = [p \in {} |-> WALL]
    /\ back = [p \in {} |-> None]
    /\ max_length = 0
    /\ end = None
    /\ cell = None
    /\ path = <<>>
    /\ trace = <<>>

\* No call of get_dir is observed.
DirIdle ==
    /\ gd_start = None
    /\ gd_end = None
    /\ gd_ret = <<>>

\* No UI exists: Maze(rows, cols) is called directly.
UIIdle ==
    /\ ui_pc = "idle"
    /\ spin_rows = <<>>
    /\ spin_cols = <<>>
    /\ r_str = <<>>
    /\ c_str = <<>>
    /\ arg_rows = 0
    /\ arg_cols = 0
    /\ maze_ui = NoMazeUI

\* ------------------------------------------------------------------- Init
\* The state of generate_board(rows, cols) at the head of its loop.
Init ==
    /\ DirIdle
    /\ UIIdle
    /\ rows \in (0 - 1) .. MaxRows
    /\ cols \in (0 - 1) .. MaxCols
    /\ pc = "generate_board"
    /\ stack = <<START_CELL>>
    /\ visited = {}
    /\ board = [p \in Cells(rows, cols) |-> WALL]
    /\ back = [p \in Cells(rows, cols) |-> None]
    /\ max_length = 0
    /\ end = None
    /\ cell = None
    /\ path = <<>>
    /\ trace = <<>>

\* ------------------------------------------------------- generate_board
\* One iteration of `while (stack)`.
generate_board_iter ==
    /\ pc = "generate_board"
    /\ stack # <<>>
    /\ LET top == stack[Len(stack)]
           r == top[1]
           c == top[2]
       IN  /\ visited' = visited \cup {top}
           /\ IF ~(IndexOK(r, rows) /\ IndexOK(c, cols))
              THEN \* board[r][c] = Maze.SPACE raises IndexError
                   /\ pc' = "IndexError"
                   /\ UNCHANGED <<stack, board, back, max_length, end, trace>>
              ELSE LET children == Children(r, c, visited', rows, cols)
                       deeper == DepthExceeds(Len(stack), max_length)
                   IN  /\ max_length' = IF deeper THEN Len(stack) ELSE max_length
                       /\ end' = IF deeper THEN top ELSE end
                       /\ pc' = pc
                       /\ IF children # <<>>
                          THEN \E k \in 1 .. Len(children) :
                                 LET child == children[k]
                                     w == WallBetween(top, child)
                                 IN  /\ board' = [board EXCEPT ![top] = SPACE,
                                                               ![w] = SPACE]
                                     /\ stack' = Append(stack, child)
                                     /\ back' = SetBack(back, child, top)
                                     /\ trace' = Append(trace,
                                           [top |-> top, depth |-> Len(stack),
                                            pushed |-> child])
                          ELSE /\ board' = [board EXCEPT ![top] = SPACE]
                               /\ stack' = SubSeq(stack, 1, Len(stack) - 1)
                               /\ back' = back
                               /\ trace' = Append(trace,
                                     [top |-> top, depth |-> Len(stack),
                                      pushed |-> None])
    /\ UNCHANGED <<rows, cols, cell, path>>
    /\ UNCHANGED <<dir_vars, ui_vars>>

\* The loop ends and generate_board returns (board, back, end).
generate_board_return ==
    /\ pc = "generate_board"
    /\ stack = <<>>
    /\ pc' = "Maze_init"
    /\ UNCHANGED <<rows, cols, stack, visited, board, back, max_length, end,
                   cell, path, trace>>
    /\ UNCHANGED <<dir_vars, ui_vars>>

\* ---------------------------------------------------------- Maze.__init__
\* Mutant of MarkStartStop: the two assignments in the other order.
MarkStartStop_StopFirst(board_, end_) ==
    [[board_ EXCEPT ![end_] = STOP] EXCEPT ![START_CELL] = START]

\* self.board[START_CELL] = START, then self.board[end] = STOP.
MarkStartStop(board_, end_) ==
    [[board_ EXCEPT ![START_CELL] = START] EXCEPT ![end_] = STOP]

\* Lines 140-144 up to the head of get_path's loop (path = [], cell = end).
Maze_init ==
    /\ pc = "Maze_init"
    /\ board' = MarkStartStop(board, end)
    /\ path' = <<>>
    /\ cell' = end
    /\ pc' = "get_path"
    /\ UNCHANGED <<rows, cols, stack, visited, back, max_length, end, trace>>
    /\ UNCHANGED <<dir_vars, ui_vars>>

\* --------------------------------------------------------------- get_dir
\* Mutant of get_dir: the column comparisons come before the row comparisons.
get_dir_ColsFirst(start_, end_) ==
    IF end_[2] > start_[2] THEN RIGHT
    ELSE IF end_[2] < start_[2] THEN LEFT
    ELSE IF end_[1] > start_[1] THEN DOWN
    ELSE IF end_[1] < start_[1] THEN UP
    ELSE None

\* Mutant of get_dir: the two arguments are taken in the other order.
get_dir_Reversed(start_, end_) ==
    IF start_[1] > end_[1] THEN DOWN
    ELSE IF start_[1] < end_[1] THEN UP
    ELSE IF start_[2] > end_[2] THEN RIGHT
    ELSE IF start_[2] < end_[2] THEN LEFT
    ELSE None

\* Falls off the end (returns None) when the two positions are equal.
get_dir(start_, end_) ==
    IF end_[1] > start_[1] THEN DOWN
    ELSE IF end_[1] < start_[1] THEN UP
    ELSE IF end_[2] > start_[2] THEN RIGHT
    ELSE IF end_[2] < start_[2] THEN LEFT
    ELSE None

\* -------------------------------------------------------------- get_path
\* Mutant of BetweenCell: the previous cell itself instead of the midpoint.
BetweenCell_Prev(prev, cell_) == prev

\* between_cell = ((prev[0] + cell[0])/2, (prev[1] + cell[1])/2)
BetweenCell(prev, cell_) ==
    <<(prev[1] + cell_[1]) \div 2, (prev[2] + cell_[2]) \div 2>>

\* One iteration of `while cell`.
get_path_iter ==
    /\ pc = "get_path"
    /\ cell # None
    /\ LET prev == cell
           p1 == IF ~(cell = START_CELL \/ cell = end)
                 THEN Append(path, <<cell, NO_DIR>>)
                 ELSE path
           next == back[cell]
       IN  /\ cell' = next
           /\ path' = IF next # None
                      THEN Append(p1, <<BetweenCell(prev, next),
                                        get_dir(next, prev)>>)
                      ELSE p1
    /\ UNCHANGED <<rows, cols, pc, stack, visited, board, back, max_length,
                   end, trace>>
    /\ UNCHANGED <<dir_vars, ui_vars>>

\* The loop ends, get_path returns path and __init__ stores it in self.path.
get_path_return ==
    /\ pc = "get_path"
    /\ cell = None
    /\ pc' = "done"
    /\ UNCHANGED <<rows, cols, stack, visited, board, back, max_length, end,
                   cell, path, trace>>
    /\ UNCHANGED <<dir_vars, ui_vars>>

\* ------------------------------------------------------------------ Spec
Next ==
    \/ generate_board_iter
    \/ generate_board_return
    \/ Maze_init
    \/ get_path_iter
    \/ get_path_return

Spec == Init /\ [][Next]_vars

\* The call runs on one thread with no suspension points: a step that can be
\* taken is taken.
FairSpec == Spec /\ WF_vars(Next)

\* ------------------------------------------------------------ GetDirSpec
\* Largest coordinate of the positions get_dir is called with.
MaxCoord == 3

\* A call get_dir(start, end) on any two positions of a small grid.
GetDirInit ==
    /\ MazeIdle
    /\ UIIdle
    /\ gd_start \in (0 .. MaxCoord) \X (0 .. MaxCoord)
    /\ gd_end \in (0 .. MaxCoord) \X (0 .. MaxCoord)
    /\ gd_ret = <<>>

\* The call returns.
get_dir_call ==
    /\ gd_start # None
    /\ gd_ret = <<>>
    /\ gd_ret' = <<get_dir(gd_start, gd_end)>>
    /\ UNCHANGED <<gd_start, gd_end, maze_vars, ui_vars>>

GetDirNext == get_dir_call

GetDirSpec == GetDirInit /\ [][GetDirNext]_vars

\* ------------------------------------------------------------- ClampSpec
\* Largest absolute value of the room counts MazeUI is constructed with.
MaxRequest == 102

\* A call MazeUI(master, rows, cols) with any two integers of the range.
ClampInit ==
    /\ MazeIdle
    /\ DirIdle
    /\ ui_pc = "MazeUI_init"
    /\ spin_rows = <<>>
    /\ spin_cols = <<>>
    /\ r_str = <<>>
    /\ c_str = <<>>
    /\ arg_rows \in (0 - MaxRequest) .. MaxRequest
    /\ arg_cols \in (0 - MaxRequest) .. MaxRequest
    /\ maze_ui = NoMazeUI

\* MazeUI.__init__: clamp, build the Maze, compute the cell size.
MazeUI_init ==
    /\ ui_pc = "MazeUI_init"
    /\ LET ui == NewMazeUI(arg_rows, arg_cols)
       IN  /\ maze_ui' = ui
           /\ ui_pc' = IF MazeRaises(ui.maze_rows, ui.maze_cols)
                       THEN "IndexError" ELSE "ready"
    /\ UNCHANGED <<spin_rows, spin_cols, r_str, c_str, arg_rows, arg_cols,
                   maze_vars, dir_vars>>

ClampNext == MazeUI_init

ClampSpec == ClampInit /\ [][ClampNext]_vars

\* --------------------------------------------------------------- AppSpec
\* The texts a user leaves in a spinbox: empty, not numbers, numbers with
\* surrounding blanks or a sign, numbers below and above the limits.
Texts ==
    { <<>>, <<"x">>, <<"3", ".", "5">>, <<"-">>, <<"1", " ", "2">>,
      <<"2", "x">>, <<"7">>, <<" ", "7", " ">>, <<"-", "3">>, <<"+", "4">>,
      <<"0">>, <<"1", "0", "1">> }

\* What regenerate_maze leaves behind when the spinboxes hold rs and cs and
\* the App holds the MazeUI old.
Regenerated(rs, cs, old) ==
    LET rows_ == IntOrDefault(rs, DEFAULT_ROWS)
        cols_ == IntOrDefault(cs, DEFAULT_COLS)
        ui == NewMazeUI(rows_, cols_)
        raised == MazeRaises(ui.maze_rows, ui.maze_cols)
    IN  [r_str |-> rs, c_str |-> cs,
         arg_rows |-> rows_, arg_cols |-> cols_,
         \* the constructor raised: self.maze_ui is not assigned and the
         \* spinboxes are not rewritten
         maze_ui |-> IF raised THEN old ELSE ui,
         spin_rows |-> IF raised THEN rs ELSE str_(ui.rows),
         spin_cols |-> IF raised THEN cs ELSE str_(ui.cols),
         ui_pc |-> IF raised THEN "IndexError" ELSE "ready"]

\* The state after App.__init__: both spinboxes set to the defaults, then
\* regenerate_maze().
AppInit ==
    /\ MazeIdle
    /\ DirIdle
    /\ LET first == Regenerated(str_(DEFAULT_ROWS), str_(DEFAULT_COLS), NoMazeUI)
       IN  /\ r_str = first.r_str
           /\ c_str = first.c_str
           /\ arg_rows = first.arg_rows
           /\ arg_cols = first.arg_cols
           /\ maze_ui = first.maze_ui
           /\ spin_rows = first.spin_rows
           /\ spin_cols = first.spin_cols
           /\ ui_pc = first.ui_pc

\* The user replaces the text of the rows spinbox.
edit_rows ==
    /\ ui_pc = "ready"
    /\ \E t \in Texts : spin_rows' = t
    /\ UNCHANGED <<ui_pc, spin_cols, r_str, c_str, arg_rows, arg_cols, maze_ui,
                   maze_vars, dir_vars>>

\* The user replaces the text of the columns spinbox.
edit_cols ==
    /\ ui_pc = "ready"
    /\ \E t \in Texts : spin_cols' = t
    /\ UNCHANGED <<ui_pc, spin_rows, r_str, c_str, arg_rows, arg_cols, maze_ui,
                   maze_vars, dir_vars>>

\* The Regenerate button: App.regenerate_maze.
regenerate_maze ==
    /\ ui_pc = "ready"
    /\ LET new == Regenerated(spin_rows, spin_cols, maze_ui)
       IN  /\ r_str' = new.r_str
           /\ c_str' = new.c_str
           /\ arg_rows' = new.arg_rows
           /\ arg_cols' = new.arg_cols
           /\ maze_ui' = new.maze_ui
           /\ spin_rows' = new.spin_rows
           /\ spin_cols' = new.spin_cols
           /\ ui_pc' = new.ui_pc
    /\ UNCHANGED <<maze_vars, dir_vars>>

AppNext ==
    \/ edit_rows
    \/ edit_cols
    \/ regenerate_maze

AppSpec == AppInit /\ [][AppNext]_vars

\* ================================================================ properties
\* generate_board has returned its triple (Maze.__init__ or get_path runs, or
\* the call is over).
Returned == pc \in {"Maze_init", "get_path", "done"}

\* The room cells of the grid: even row, even column.
Rooms == {p \in Cells(rows, cols) : p[1] % 2 = 0 /\ p[2] % 2 = 0}

\* The open (non-WALL) cells of the board.
Open == {p \in DOMAIN board : board[p] # WALL}

Abs(x) == IF x < 0 THEN 0 - x ELSE x

Manhattan(a, b) == Abs(a[1] - b[1]) + Abs(a[2] - b[2])

\* The open cells at Manhattan distance 1 from p.
OpenNeighbours(p) ==
    {q \in {<<p[1] + 1, p[2]>>, <<p[1] - 1, p[2]>>,
             <<p[1], p[2] + 1>>, <<p[1], p[2] - 1>>} :
        q \in DOMAIN board /\ board[q] # WALL}

\* The open cells reachable from the cells of `seen` by steps between
\* 4-adjacent open cells.
RECURSIVE ReachFrom(_)
ReachFrom(seen) ==
    LET more == UNION {OpenNeighbours(q) : q \in seen} \ seen
    IN  IF more = {} THEN seen ELSE ReachFrom(seen \cup more)

Reachable == IF START_CELL \in Open THEN ReachFrom({START_CELL}) ELSE {}

\* The number of simple paths of open cells from `from` to `to` that avoid
\* the cells of `used`.
RECURSIVE CountPaths(_, _, _)
RECURSIVE SumPaths(_, _, _)
CountPaths(from, to, used) ==
    IF from = to THEN 1
    ELSE SumPaths(OpenNeighbours(from) \ used, to, used)

SumPaths(S, to, used) ==
    IF S = {} THEN 0
    ELSE LET n == CHOOSE x \in S : TRUE
         IN  CountPaths(n, to, used \cup {n}) + SumPaths(S \ {n}, to, used)

\* Following backpointers from p reaches START_CELL without meeting a cell of
\* `seen` again.
RECURSIVE ChainToStart(_, _)
ChainToStart(p, seen) ==
    IF p = START_CELL THEN TRUE
    ELSE IF back[p] = None \/ back[p] \in seen THEN FALSE
    ELSE ChainToStart(back[p], seen \cup {back[p]})

\* C1: once generate_board has returned, every non-WALL room cell is
\* reachable from the start cell (0,0) through 4-adjacent non-WALL cells.
C1_Connected ==
    Returned => LET reach == Reachable
                IN  \A p \in Rooms : board[p] # WALL => p \in reach

\* A finished board with rooms in several rows and columns, the far corner
\* room open.
C1_Witness ==
    /\ Returned
    /\ rows >= 5 /\ cols >= 5
    /\ board[<<4, 4>>] # WALL

\* C2: once generate_board has returned, there is exactly one simple path of
\* open cells from the start cell to every other open cell, and the
\* backpointers form a tree rooted at the start cell: the start has none and
\* the chain from every room reaches (0,0) without repeating a cell.
C2_Acyclic ==
    Returned =>
        /\ \A p \in Open \ {START_CELL} : CountPaths(START_CELL, p, {START_CELL}) = 1
        /\ back[START_CELL] = None
        /\ \A p \in Rooms : ChainToStart(p, {p})

\* A finished board on which a cycle would be possible: a 2 x 2 block of
\* rooms, all of them open.
C2_Witness ==
    /\ Returned
    /\ rows >= 3 /\ cols >= 3
    /\ Cardinality(Open) >= 7

\* The generation loop has ended and the board is as generate_board returns it.
AtReturn == stack = <<>> /\ pc \in {"generate_board", "Maze_init"}

\* How many times p was pushed: the initial stack [START_CELL] and every
\* stack.append(child).
PushCount(p) ==
    (IF p = START_CELL THEN 1 ELSE 0)
    + Cardinality({i \in 1 .. Len(trace) : trace[i].pushed = p})

\* C3: for rows >= 1 and cols >= 1 the generation loop terminates, and when it
\* has, every room cell has been visited, was pushed exactly once and is SPACE.
C3_Terminates ==
    /\ (pc = "generate_board" /\ rows >= 1 /\ cols >= 1) ~> (pc = "Maze_init")
    /\ [](AtReturn => \A p \in Rooms : /\ p \in visited
                                       /\ PushCount(p) = 1
                                       /\ board[p] = SPACE)

\* The loop has ended on a grid with at least 3 x 4 rooms.
C3_Witness ==
    /\ AtReturn
    /\ Cardinality(Rooms) >= 12
    /\ Len(trace) >= 2 * Cardinality(Rooms) - 1

\* C4: consecutive entries of the path are at Manhattan distance exactly 1
\* and every position of the path is a non-WALL cell of the board.
C4_PathAdjacent ==
    /\ \A i \in 1 .. Len(path) - 1 : Manhattan(path[i][1], path[i + 1][1]) = 1
    /\ \A i \in 1 .. Len(path) : board[path[i][1]] # WALL

\* get_path has returned a path that crosses several rooms.
C4_Witness ==
    /\ pc = "done"
    /\ Len(path) >= 7

\* C5 (as claimed): when STOP differs from START the returned path runs from
\* START to STOP: its first position is adjacent to the START cell and its
\* last position is adjacent to or equal to the STOP cell.
C5_StartToStop ==
    (pc = "done" /\ end # START_CELL) =>
        /\ path # <<>>
        /\ Manhattan(path[1][1], START_CELL) = 1
        /\ Manhattan(path[Len(path)][1], end) <= 1

\* The number of backpointer hops from p to the start cell.
RECURSIVE Hops(_)
Hops(p) == IF back[p] = None THEN 0 ELSE 1 + Hops(back[p])

\* The largest stack length met at the head of an iteration.
MaxDepthSeen ==
    CHOOSE d \in {trace[i].depth : i \in 1 .. Len(trace)} :
        \A i \in 1 .. Len(trace) : trace[i].depth <= d

\* C6: the returned end cell is at maximum DFS-stack depth: max_length is the
\* largest stack length of any iteration, end was the top of the stack at an
\* iteration of that length, and end is max_length - 1 backpointer hops from
\* the start, no room being further.
C6_EndAtMaxDepth ==
    Returned =>
        /\ max_length = MaxDepthSeen
        /\ \E i \in 1 .. Len(trace) :
              trace[i].top = end /\ trace[i].depth = max_length
        /\ Hops(end) = max_length - 1
        /\ \A p \in Rooms : Hops(p) <= Hops(end)

\* A finished generation that backtracked and branched, so that the deepest
\* cell is not simply the last one discovered.
C6_Witness ==
    /\ Returned
    /\ max_length >= 4
    /\ max_length < Cardinality(Rooms)
    /\ \E i \in 1 .. Len(trace) :
          trace[i].pushed # None /\ trace[i].depth < max_length
          /\ \E j \in 1 .. i - 1 : trace[j].depth = max_length

\* The iteration at which p first was the top of the stack, and the stack
\* length then.
FirstTop(p) ==
    CHOOSE i \in 1 .. Len(trace) :
        trace[i].top = p /\ \A j \in 1 .. i - 1 : trace[j].top # p

DiscoveryDepth(p) == trace[FirstTop(p)].depth

\* C7: end is replaced only at an iteration whose stack length strictly
\* exceeds max_length (so neither a later arrival at the same depth nor a
\* cell exposed again by backtracking replaces it), and among the rooms
\* discovered at the final maximum depth the returned end is the one that
\* was the top of the stack first.
C7_FirstAtDepthWins ==
    /\ [][end' # end => (pc = "generate_board" /\ Len(stack) > max_length)]_vars
    /\ [](Returned =>
            \A p \in Rooms :
                DiscoveryDepth(p) = max_length => FirstTop(end) <= FirstTop(p))

\* A finished generation in which two branches reached the final maximum
\* depth: a room other than end was discovered at depth max_length.
C7_Witness ==
    /\ Returned
    /\ \E p \in Rooms : p # end /\ DiscoveryDepth(p) = max_length

\* Maze.__init__ has marked the board.
Constructed == pc \in {"get_path", "done"}

\* C8 (as claimed): after construction the board holds START at (0,0) and
\* STOP at end, every other open cell being SPACE.
C8_StartAndStop ==
    Constructed =>
        /\ board[START_CELL] = START
        /\ board[end] = STOP
        /\ \A p \in Open \ {START_CELL, end} : board[p] = SPACE

\* C8 (amended): after construction the board holds STOP at end, START at
\* (0,0) unless end is (0,0) itself, and SPACE at every other open cell.
C8_StopThenStart ==
    Constructed =>
        /\ board[end] = STOP
        /\ (end # START_CELL => board[START_CELL] = START)
        /\ \A p \in Open \ {START_CELL, end} : board[p] = SPACE

\* A constructed maze whose only room is the start cell, which holds STOP.
C8_Witness ==
    /\ pc = "done"
    /\ end = START_CELL
    /\ board[START_CELL] = STOP

\* C9: with rows <= 0 or cols <= 0 the call raises on its first iteration:
\* generate_board never returns, nothing is carved or recorded before the
\* error, and Maze.__init__ never gets a board, a backpointer table or an end.
C9_DegenerateRaises ==
    (rows <= 0 \/ cols <= 0) =>
        /\ pc \in {"generate_board", "IndexError"}
        /\ stack = <<START_CELL>>
        /\ trace = <<>>
        /\ end = None
        /\ path = <<>>

\* A degenerate call that has raised.
C9_Witness ==
    /\ rows >= 1
    /\ cols <= 0
    /\ pc = "IndexError"

\* The non-room cells that are open: the carved wall/corridor cells.
Corridors == Open \ Rooms

\* C11: when the generation loop has ended, the number of rooms is
\* ceil(rows/2) * ceil(cols/2), all of them are open, and exactly
\* (number of rooms - 1) wall/corridor cells are SPACE; generate_board(3, 3)
\* has 4 rooms and 3 open corridor cells.
C11_CarvesRoomsMinusOne ==
    (AtReturn \/ Returned) =>
        /\ Cardinality(Rooms) = ((rows + 1) \div 2) * ((cols + 1) \div 2)
        /\ Rooms \subseteq Open
        /\ Cardinality(Corridors) = Cardinality(Rooms) - 1
        /\ \A p \in Corridors : board[p] = SPACE
        /\ (rows = 3 /\ cols = 3) =>
              Cardinality(Rooms) = 4 /\ Cardinality(Corridors) = 3

\* generate_board(3, 3) has ended.
C11_Witness ==
    /\ AtReturn
    /\ rows = 3 /\ cols = 3
    /\ Cardinality(Corridors) = 3

\* The backpointer steps get_path has taken: each one appends exactly one
\* entry whose position is a wall/corridor cell.
StepsTaken == Cardinality({i \in 1 .. Len(path) : path[i][1] \notin Rooms})

\* C15: the walk of get_path terminates; it takes exactly (tree depth of end)
\* backpointer steps, each to a cell one hop closer to the start, and it
\* stops exactly at the start cell, the only room without a backpointer.
C15_WalkTerminates ==
    /\ (pc = "get_path") ~> (pc = "done")
    /\ [](Returned => \A p \in Rooms : back[p] = None <=> p = START_CELL)
    /\ []((pc = "get_path" /\ cell # None) =>
              StepsTaken = Hops(end) - Hops(cell))
    /\ [](pc = "done" => cell = None /\ StepsTaken = Hops(end))
    /\ [][(pc = "get_path" /\ cell # None) =>
              IF cell' # None THEN Hops(cell') = Hops(cell) - 1
                              ELSE cell = START_CELL]_vars

\* A finished walk from an end cell several hops deep.
C15_Witness ==
    /\ pc = "done"
    /\ Hops(end) >= 5
    /\ StepsTaken = Hops(end)

\* The open cells reachable from the cells of `seen` without entering `avoid`.
RECURSIVE ReachAvoiding(_, _)
ReachAvoiding(seen, avoid) ==
    LET more == (UNION {OpenNeighbours(q) : q \in seen} \ seen) \ {avoid}
    IN  IF more = {} THEN seen ELSE ReachAvoiding(seen \cup more, avoid)

\* The cells of the open route from START to STOP: the two ends and every
\* open cell whose removal cuts STOP off from START.
Route ==
    {p \in Open : \/ p \in {START_CELL, end}
                  \/ end \notin ReachAvoiding({START_CELL}, p)}

\* How many entries of the path have position p.
Entries(p) == Cardinality({i \in 1 .. Len(path) : path[i][1] = p})

\* C16 (as claimed): every room and corridor cell of the route from START to
\* STOP is the position of exactly one path entry, and no other cell is.
C16_MarksWholeRoute ==
    pc = "done" =>
        LET route == Route
        IN  /\ \A p \in route : Entries(p) = 1
            /\ \A i \in 1 .. Len(path) : path[i][1] \in route

\* C16 (amended): every room and corridor cell of the route strictly between
\* START and STOP is the position of exactly one path entry; the START and
\* STOP cells themselves, and every cell off the route, are the position of
\* none.
C16_MarksRouteInterior ==
    pc = "done" =>
        LET route == Route
        IN  /\ \A p \in route \ {START_CELL, end} : Entries(p) = 1
            /\ Entries(START_CELL) = 0
            /\ Entries(end) = 0
            /\ \A i \in 1 .. Len(path) : path[i][1] \in route

\* A returned path on a maze with branches off the route: some open cells
\* are not on the route, and the route passes through several rooms.
C16_Witness ==
    /\ pc = "done"
    /\ Len(path) >= 5
    /\ \E p \in Open : p \notin Route

\* The unit step of a direction on the grid (rows grow downwards).
Delta(d) ==
    CASE d = DOWN -> <<1, 0>>
      [] d = UP -> <<0 - 1, 0>>
      [] d = RIGHT -> <<0, 1>>
      [] d = LEFT -> <<0, 0 - 1>>

\* C17: in the path every entry at a room cell carries NO_DIR, and every
\* entry at a corridor cell carries one of LEFT, RIGHT, UP, DOWN, namely the
\* direction of travel from the adjacent room nearer START (the backpointer
\* of the other) to the adjacent room nearer STOP.
C17_ArrowsPointToStop ==
    \A i \in 1 .. Len(path) :
        LET w == path[i][1]
            d == path[i][2]
        IN  IF w \in Rooms
            THEN d = NO_DIR
            ELSE /\ d \in {LEFT, RIGHT, UP, DOWN}
                 /\ LET from == <<w[1] - Delta(d)[1], w[2] - Delta(d)[2]>>
                        to == <<w[1] + Delta(d)[1], w[2] + Delta(d)[2]>>
                    IN  /\ from \in Rooms
                        /\ to \in Rooms
                        /\ back[to] = from
                        /\ Hops(to) = Hops(from) + 1

\* A returned path with a room entry and arrows in all four directions.
C17_Witness ==
    /\ pc = "done"
    /\ \E i \in 1 .. Len(path) : path[i][1] \in Rooms
    /\ \A d \in {LEFT, RIGHT, UP, DOWN} :
          \E i \in 1 .. Len(path) : path[i][1] \notin Rooms /\ path[i][2] = d

\* The cell halfway between two positions.
Midpoint(a, b) == <<(a[1] + b[1]) \div 2, (a[2] + b[2]) \div 2>>

\* Two positions exactly 2 apart along one axis and 0 along the other.
TwoApart(a, b) ==
    \/ Abs(a[1] - b[1]) = 2 /\ a[2] = b[2]
    \/ a[1] = b[1] /\ Abs(a[2] - b[2]) = 2

\* The top of the stack at the iteration that first pushed p.
FirstPushedFrom(p) ==
    LET i == CHOOSE k \in 1 .. Len(trace) :
                 trace[k].pushed = p /\ \A j \in 1 .. k - 1 : trace[j].pushed # p
    IN  trace[i].top

\* C18: in every state the backpointer of a discovered room other than the
\* start is the room from which it was first discovered, exactly 2 cells away
\* along one axis, with the cell halfway between them SPACE; the entry is None
\* for the start cell, for every undiscovered room and for every non-room
\* cell; and a backpointer once written is never overwritten.
C18_BackpointerTable ==
    /\ [](\A p \in DOMAIN back :
            IF back[p] # None
            THEN /\ p \in Rooms \ {START_CELL}
                 /\ PushCount(p) >= 1
                 /\ back[p] = FirstPushedFrom(p)
                 /\ back[p] \in Rooms
                 /\ TwoApart(p, back[p])
                 /\ board[Midpoint(p, back[p])] = SPACE
            ELSE p = START_CELL \/ p \notin Rooms \/ PushCount(p) = 0)
    /\ [][\A p \in DOMAIN back : back[p] # None => back'[p] = back[p]]_vars

\* A state in the middle of generation: some rooms have a backpointer, some
\* are still undiscovered, and the search has already backtracked.
C18_Witness ==
    /\ pc = "generate_board"
    /\ \E p \in Rooms : back[p] # None /\ Abs(p[1] - back[p][1]) = 2
    /\ \E p \in Rooms : back[p] # None /\ Abs(p[2] - back[p][2]) = 2
    /\ \E p \in Rooms \ {START_CELL} : back[p] = None
    /\ \E i \in 1 .. Len(trace) : trace[i].pushed = None

\* C19: at the head of every iteration the stack is a duplicate-free chain of
\* the backpointer tree from the start cell to the top: stack[0] is (0,0),
\* each cell's backpointer is the cell below it, every cell below the top is
\* in visited, and len(stack) - 1 is the tree depth of the top; no cell is
\* ever pushed twice.
C19_StackIsChain ==
    /\ \A p \in DOMAIN back : PushCount(p) <= 1
    /\ (pc = "generate_board" /\ stack # <<>> /\ rows >= 1 /\ cols >= 1) =>
          /\ stack[1] = START_CELL
          /\ \A i, j \in 1 .. Len(stack) : i # j => stack[i] # stack[j]
          /\ \A i \in 2 .. Len(stack) : back[stack[i]] = stack[i - 1]
          /\ \A i \in 1 .. Len(stack) - 1 : stack[i] \in visited
          /\ Hops(stack[Len(stack)]) = Len(stack) - 1

\* The head of an iteration whose top has just been pushed (it is not yet in
\* visited) after the search has backtracked.
C19_Witness ==
    /\ pc = "generate_board"
    /\ Len(stack) >= 4
    /\ stack[Len(stack)] \notin visited
    /\ \E i \in 1 .. Len(trace) : trace[i].pushed = None

\* C20: in every state a non-room cell is open only if it is SPACE and lies
\* halfway between some room and that room's backpointer; cells with odd row
\* and odd column are WALL; and an open cell never becomes WALL again.
C20_OnlyTreeEdgesCarved ==
    /\ [](\A p \in DOMAIN board :
            /\ (p \notin Rooms /\ board[p] # WALL) =>
                  /\ board[p] = SPACE
                  /\ \E q \in Rooms :
                        back[q] # None /\ p = Midpoint(q, back[q])
            /\ (p[1] % 2 = 1 /\ p[2] % 2 = 1) => board[p] = WALL)
    /\ [][\A p \in DOMAIN board : board[p] # WALL => board'[p] # WALL]_vars

\* A finished board with odd-odd cells and with wall cells between rooms
\* that were never carved.
C20_Witness ==
    /\ Returned
    /\ rows >= 3 /\ cols >= 3
    /\ \E p \in DOMAIN board :
          p \notin Rooms /\ (p[1] % 2 = 0 \/ p[2] % 2 = 0) /\ board[p] = WALL
    /\ \E p \in DOMAIN board : p \notin Rooms /\ board[p] = SPACE

\* C12: get_dir(start, end) is DOWN when end's row is larger than start's, UP
\* when it is smaller, and otherwise RIGHT when end's column is larger and
\* LEFT when it is smaller (the rows decide before the columns); so
\* get_dir((0,0),(1,0)) = DOWN, get_dir((1,0),(0,0)) = UP,
\* get_dir((0,0),(0,1)) = RIGHT and get_dir((0,1),(0,0)) = LEFT.
C12_DirectionMapping ==
    gd_ret # <<>> =>
        /\ gd_end[1] > gd_start[1] => gd_ret[1] = DOWN
        /\ gd_end[1] < gd_start[1] => gd_ret[1] = UP
        /\ (gd_end[1] = gd_start[1] /\ gd_end[2] > gd_start[2]) => gd_ret[1] = RIGHT
        /\ (gd_end[1] = gd_start[1] /\ gd_end[2] < gd_start[2]) => gd_ret[1] = LEFT
        /\ (gd_start = <<0, 0>> /\ gd_end = <<1, 0>>) => gd_ret[1] = DOWN
        /\ (gd_start = <<1, 0>> /\ gd_end = <<0, 0>>) => gd_ret[1] = UP
        /\ (gd_start = <<0, 0>> /\ gd_end = <<0, 1>>) => gd_ret[1] = RIGHT
        /\ (gd_start = <<0, 1>> /\ gd_end = <<0, 0>>) => gd_ret[1] = LEFT

\* A returned call in which the rows and the columns disagree: the row is
\* larger, the column smaller, and the row decides.
C12_Witness ==
    /\ gd_ret # <<>>
    /\ gd_end[1] > gd_start[1]
    /\ gd_end[2] < gd_start[2]
    /\ gd_ret[1] = DOWN

\* The MazeUI constructor has run.
UIBuilt == ui_pc \in {"ready", "IndexError"}

\* C13: for every requested room count MazeUI keeps rows within [2, 100] and
\* cols within [1, 100] (the request itself when it lies inside, the nearer
\* limit otherwise) and constructs its Maze with exactly 2*rows - 1 rows and
\* 2*cols - 1 columns: odd numbers, at least 3 rows and 1 column.
C13_ClampedOddGrid ==
    UIBuilt =>
        /\ maze_ui.rows = (IF arg_rows < 2 THEN 2
                           ELSE IF arg_rows > 100 THEN 100 ELSE arg_rows)
        /\ maze_ui.cols = (IF arg_cols < 1 THEN 1
                           ELSE IF arg_cols > 100 THEN 100 ELSE arg_cols)
        /\ MIN_ROWS = 2 /\ MAX_ROWS = 100 /\ MIN_COLS = 1 /\ MAX_COLS = 100
        /\ maze_ui.maze_rows = 2 * maze_ui.rows - 1
        /\ maze_ui.maze_cols = 2 * maze_ui.cols - 1
        /\ maze_ui.maze_rows % 2 = 1 /\ maze_ui.maze_rows >= 3
        /\ maze_ui.maze_cols % 2 = 1 /\ maze_ui.maze_cols >= 1
        /\ ui_pc = "ready"

\* A constructor call with one request below its minimum and the other above
\* its maximum.
C13_Witness ==
    /\ UIBuilt
    /\ arg_rows < 0
    /\ arg_cols > 100
    /\ maze_ui.maze_rows = 3
    /\ maze_ui.maze_cols = 199

\* A text is a valid integer for int(): blanks, an optional sign, one or more
\* decimal digits, blanks.
IsIntegerText(t) ==
    \E i, j \in 1 .. Len(t) :
        /\ i <= j
        /\ \A k \in 1 .. i - 1 : t[k] = " "
        /\ \A k \in j + 1 .. Len(t) : t[k] = " "
        /\ \/ \A k \in i .. j : IsDigit(t[k])
           \/ /\ t[i] \in {"+", "-"}
              /\ i < j
              /\ \A k \in i + 1 .. j : IsDigit(t[k])

\* C14: regenerate_maze never ends in an error; a rows text that is not a
\* valid integer is replaced by 20 and a columns text that is not by 20, and
\* a maze is constructed all the same: with both fields non-numeric it has
\* 20 x 20 rooms (a 39 x 39 grid).
C14_FallbackToDefaults ==
    /\ ui_pc = "ready"
    /\ maze_ui.size >= MIN_SIZE
    /\ ~IsIntegerText(r_str) =>
          arg_rows = 20 /\ maze_ui.rows = 20 /\ maze_ui.maze_rows = 39
    /\ ~IsIntegerText(c_str) =>
          arg_cols = 20 /\ maze_ui.cols = 20 /\ maze_ui.maze_cols = 39
    /\ IsIntegerText(r_str) => int_(r_str).ok /\ arg_rows = int_(r_str).value
    /\ IsIntegerText(c_str) => int_(c_str).ok /\ arg_cols = int_(c_str).value

\* regenerate_maze has run on two different non-numeric texts and built a
\* 20 x 20 maze, writing 20 back into both spinboxes.
C14_Witness ==
    /\ ui_pc = "ready"
    /\ r_str = <<"3", ".", "5">>
    /\ c_str = <<>>
    /\ maze_ui.rows = 20 /\ maze_ui.cols = 20
    /\ spin_rows = <<"2", "0">> /\ spin_cols = <<"2", "0">>

====
